---- MODULE Spec2Model ----
(***************************************************************************)
(* Order-forwarding pipeline: OrderRepository.fetch_orders (cursor         *)
(* pagination, cost throttle, tag filtering, raw node -> Order mapping)    *)
(* and map_order_to_everstox (Order -> EverstoxOrder).                     *)
(*                                                                         *)
(* Conventions.  A Python value that may be None / a dict key that may be  *)
(* missing is a sequence of length 0 or 1: None, Some(x).  Money amounts   *)
(* and tax rates are Python floats in the code; here they are integers in  *)
(* hundredths (10.00 -> 1000, rate 0.19 -> 19).  A duration handed to      *)
(* time.sleep is the exact quotient num/den, kept as the pair.             *)
(***************************************************************************)
EXTENDS Integers, Sequences, FiniteSets, TLC

None == <<>>
Some(x) == <<x>>

\* dict.get(key, default) / "x if x is not None else default"
Get(opt, default) == IF Len(opt) = 0 THEN default ELSE opt[1]

RECURSIVE Sum(_)
\* sum(...) over a list of numbers
Sum(s) == IF Len(s) = 0 THEN 0 ELSE Head(s) + Sum(Tail(s))

----------------------------------------------------------------------------
(* Bounds of the model *)

\* page requests one fetch_orders call may issue before the model stops it
MaxPages == 2
\* edges the provider puts in one page
MaxEdges == 2
\* tax lines on a shipping line handed to the mapper
MaxTaxLines == 2

----------------------------------------------------------------------------
(* Class attributes of OrderRepository *)

COST_BUFFER == 50

\* throttle.get("currentlyAvailable", 1000)
DEFAULT_AVAILABLE == 1000

\* throttle.get("restoreRate", 50)
DEFAULT_RESTORE_RATE == 50

\* cost.get("actualQueryCost", 0)
DEFAULT_COST == 0

----------------------------------------------------------------------------
(* str.lower() on the tags the provider uses *)

lower(tag) ==
    CASE tag = "VIP" -> "vip"
      [] tag = "Hold" -> "hold"
      [] OTHER -> tag

----------------------------------------------------------------------------
(* float(str) on the decimal strings the provider uses, in hundredths *)

float(s) ==
    CASE s = "0.00" -> 0
      [] s = "0.07" -> 7
      [] s = "0.19" -> 19
      [] s = "0.50" -> 50
      [] s = "1.52" -> 152
      [] s = "2.00" -> 200
      [] s = "8.00" -> 800
      [] s = "10.00" -> 1000

----------------------------------------------------------------------------
(* OrderRepository._map: raw GraphQL node -> Order *)

\* OrderTaxLine(rate=float(t["rate"]), amount=float(...["amount"]), currency=...)
OrderTaxLine(t) ==
    [rate |-> float(t.rate), amount |-> float(t.amount), currency |-> t.currencyCode]

\* OrderShippingAddress(...) built from the raw shippingAddress
OrderShippingAddress(raw) ==
    [first_name |-> raw.firstName, last_name |-> raw.lastName,
     country_code |-> raw.countryCode, city |-> raw.city[1],
     zip |-> raw.zip, address_1 |-> raw.address1, address_2 |-> raw.address2,
     phone |-> raw.phone, province |-> raw.province]

\* OrderBillingAddress(...) built from the raw billingAddress
OrderBillingAddress(raw) ==
    [first_name |-> raw.firstName, last_name |-> raw.lastName,
     country_code |-> raw.countryCode, city |-> raw.city[1],
     zip |-> raw.zip, address_1 |-> raw.address1, address_2 |-> raw.address2,
     company |-> raw.company, phone |-> raw.phone, country |-> raw.country,
     province |-> raw.province, province_code |-> raw.provinceCode]

\* OrderLineItem with the ordered quantity instead of the unfulfilled one
OrderLineItem_raw_quantity(item) ==
    [id |-> item.id,
     title |-> item.title,
     quantity |-> item.quantity,
     sku |-> item.sku[1],
     price |-> float(item.amount),
     currency |-> item.currencyCode,
     tax_lines |-> [i \in 1..Len(item.taxLines) |-> OrderTaxLine(item.taxLines[i])],
     discount_total |-> Sum([i \in 1..Len(item.discountAllocations) |->
                                float(item.discountAllocations[i])]),
     custom_attributes |-> item.customAttributes]

\* one element of the line_items comprehension
OrderLineItem(item) ==
    [id |-> item.id,
     title |-> item.title,
     quantity |-> item.unfulfilledQuantity,
     sku |-> item.sku[1],
     price |-> float(item.amount),
     currency |-> item.currencyCode,
     tax_lines |-> [i \in 1..Len(item.taxLines) |-> OrderTaxLine(item.taxLines[i])],
     discount_total |-> Sum([i \in 1..Len(item.discountAllocations) |->
                                float(item.discountAllocations[i])]),
     custom_attributes |-> item.customAttributes]

\* the filter of the comprehension: if item["node"]["unfulfilledQuantity"] > 0
Unfulfilled(item) == item.unfulfilledQuantity > 0

\* MapLineItems without the filter: fulfilled line items are kept
MapLineItems_keep_fulfilled(edges) ==
    [i \in 1..Len(edges) |-> OrderLineItem(edges[i])]

\* the line_items comprehension of _map
MapLineItems(edges) ==
    LET kept == SelectSeq(edges, Unfulfilled)
    IN  [i \in 1..Len(kept) |-> OrderLineItem(kept[i])]

OrderShippingLine(raw_sl) ==
    [title |-> raw_sl.title,
     code |-> raw_sl.code,
     original_price |-> float(raw_sl.originalAmount),
     discounted_price |-> float(raw_sl.discountedAmount),
     currency |-> raw_sl.currencyCode,
     tax_lines |-> [i \in 1..Len(raw_sl.taxLines) |-> OrderTaxLine(raw_sl.taxLines[i])]]

\* The exception _map raises on this node, None when it returns.  A missing
\* totalPriceSet fails the subscript at the top; a present address without
\* city and an unfulfilled line item without sku fail pydantic validation
\* (city: str, sku: str), in the order the code builds them; a missing name
\* fails the subscript in the arguments of the final Order(...).
MapError(node) ==
    IF Len(node.totalPriceSet) = 0 THEN Some("KeyError")
    ELSE IF Len(node.shippingAddress) = 1 /\ Len(node.shippingAddress[1].city) = 0
        THEN Some("ValidationError")
    ELSE IF Len(node.billingAddress) = 1 /\ Len(node.billingAddress[1].city) = 0
        THEN Some("ValidationError")
    ELSE IF \E i \in 1..Len(node.lineItems) :
             Unfulfilled(node.lineItems[i]) /\ Len(node.lineItems[i].sku) = 0
        THEN Some("ValidationError")
    ELSE IF Len(node.name) = 0 THEN Some("KeyError")
    ELSE None

\* The Order _map returns (defined where MapError(node) = None)
_map(node) ==
    [id |-> node.id,
     name |-> node.name[1],
     created_at |-> node.createdAt,
     financial_status |-> node.displayFinancialStatus,
     fulfillment_status |-> node.displayFulfillmentStatus,
     total_price |-> node.totalPriceSet[1].amount,
     currency |-> node.totalPriceSet[1].currencyCode,
     tags |-> Get(node.tags, <<>>),
     email |-> node.email,
     shipping_address |->
        [i \in 1..Len(node.shippingAddress) |-> OrderShippingAddress(node.shippingAddress[i])],
     billing_address |->
        [i \in 1..Len(node.billingAddress) |-> OrderBillingAddress(node.billingAddress[i])],
     shipping_line |->
        [i \in 1..Len(node.shippingLine) |-> OrderShippingLine(node.shippingLine[i])],
     line_items |-> MapLineItems(node.lineItems)]

----------------------------------------------------------------------------
(* order_mapper: Order -> EverstoxOrder *)

_SHOP_INSTANCE_ID == "00000000-0000-0000-0000-000000000000"

\* _map_shipping_address with first and last name exchanged
_map_shipping_address_names_swapped(addr) ==
    [first_name |-> addr.last_name, last_name |-> addr.first_name,
     country_code |-> addr.country_code, city |-> addr.city,
     zip |-> addr.zip, address_1 |-> addr.address_1, address_2 |-> addr.address_2,
     phone |-> addr.phone, province |-> addr.province]

\* _map_shipping_address: the nine fields of OrderShippingAddress, one for one
_map_shipping_address(addr) ==
    [first_name |-> addr.first_name, last_name |-> addr.last_name,
     country_code |-> addr.country_code, city |-> addr.city,
     zip |-> addr.zip, address_1 |-> addr.address_1, address_2 |-> addr.address_2,
     phone |-> addr.phone, province |-> addr.province]

\* _map_billing_address: the twelve fields of OrderBillingAddress, one for one
_map_billing_address(addr) ==
    [first_name |-> addr.first_name, last_name |-> addr.last_name,
     country_code |-> addr.country_code, city |-> addr.city,
     zip |-> addr.zip, address_1 |-> addr.address_1, address_2 |-> addr.address_2,
     company |-> addr.company, phone |-> addr.phone, country |-> addr.country,
     province |-> addr.province, province_code |-> addr.province_code]

\* the fallback ShippingAddress(...) when Shopify returned null; the fields
\* the call does not pass keep their default None
FallbackShippingAddress ==
    [first_name |-> "TODO", last_name |-> "TODO", country_code |-> "DE",
     city |-> "TODO", zip |-> "00000", address_1 |-> "TODO", address_2 |-> None,
     phone |-> None, province |-> None]

\* the fallback BillingAddress(...) when Shopify returned null
FallbackBillingAddress ==
    [first_name |-> "TODO", last_name |-> "TODO", country_code |-> "DE",
     city |-> "TODO", zip |-> "00000", address_1 |-> "TODO", address_2 |-> None,
     company |-> None, phone |-> None, country |-> None,
     province |-> None, province_code |-> None]

\* sum(t.amount for t in tax_lines)
TaxAmount(tax_lines) == Sum([i \in 1..Len(tax_lines) |-> tax_lines[i].amount])

\* TaxRate taking the last tax line instead of the first
TaxRate_last(tax_lines) ==
    IF Len(tax_lines) > 0 THEN tax_lines[Len(tax_lines)].rate ELSE 0

\* tax_lines[0].rate if tax_lines else 0.0
TaxRate(tax_lines) == IF Len(tax_lines) > 0 THEN tax_lines[1].rate ELSE 0

\* CustomAttribute(attribute_key=ca["key"], attribute_value=ca["value"])
CustomAttribute(ca) == [attribute_key |-> ca.key, attribute_value |-> ca.value]

\* PriceSet whose net price also takes the tax off
PriceSet_net_of_tax(item) ==
    [quantity |-> item.quantity,
     currency |-> item.currency,
     price |-> item.price,
     price_net_after_discount |->
        item.price - item.discount_total - TaxAmount(item.tax_lines),
     tax_amount |-> TaxAmount(item.tax_lines),
     tax_rate |-> TaxRate(item.tax_lines),
     tax |-> TaxAmount(item.tax_lines),
     discount |-> item.discount_total,
     discount_gross |-> item.discount_total]

\* the PriceSet of one line item
PriceSet(item) ==
    [quantity |-> item.quantity,
     currency |-> item.currency,
     price |-> item.price,
     price_net_after_discount |-> item.price - item.discount_total,
     tax_amount |-> TaxAmount(item.tax_lines),
     tax_rate |-> TaxRate(item.tax_lines),
     tax |-> TaxAmount(item.tax_lines),
     discount |-> item.discount_total,
     discount_gross |-> item.discount_total]

\* _map_order_items emitting the items last to first
_map_order_items_reversed(order_line_items, shipment_options) ==
    [i \in 1..Len(order_line_items) |->
        LET item == order_line_items[Len(order_line_items) + 1 - i]
        IN  [quantity |-> item.quantity,
             product |-> [sku |-> item.sku],
             shipment_options |-> shipment_options,
             price_set |-> <<PriceSet(item)>>,
             custom_attributes |->
                [j \in 1..Len(item.custom_attributes) |->
                    CustomAttribute(item.custom_attributes[j])]]]

_map_order_items(order_line_items, shipment_options) ==
    [i \in 1..Len(order_line_items) |->
        [quantity |-> order_line_items[i].quantity,
         product |-> [sku |-> order_line_items[i].sku],
         shipment_options |-> shipment_options,
         price_set |-> <<PriceSet(order_line_items[i])>>,
         custom_attributes |->
            [j \in 1..Len(order_line_items[i].custom_attributes) |->
                CustomAttribute(order_line_items[i].custom_attributes[j])]]]

\* OrderItem(quantity=1, product=Product(sku="TODO")), the lists defaulting to []
PlaceholderItem ==
    [quantity |-> 1, product |-> [sku |-> "TODO"], shipment_options |-> <<>>,
     price_set |-> <<>>, custom_attributes |-> <<>>]

\* ShippingPriceOf taking the discounted price
ShippingPriceOf_discounted(sl) == sl.discounted_price

\* price=sl.original_price if sl else 0.0
ShippingPriceOf(sl) == sl.original_price

\* ShippingPrice(...) of an order with a shipping line
ShippingPriceWith(sl) ==
    [currency |-> sl.currency,
     price |-> ShippingPriceOf(sl),
     price_net_after_discount |-> sl.discounted_price - TaxAmount(sl.tax_lines),
     tax_amount |-> TaxAmount(sl.tax_lines),
     tax_rate |-> TaxRate(sl.tax_lines),
     tax |-> TaxAmount(sl.tax_lines),
     discount |-> sl.original_price - sl.discounted_price,
     discount_gross |-> sl.original_price - sl.discounted_price]

\* ShippingPriceWithout with the currency hard-coded
ShippingPriceWithout_eur(currency) ==
    [currency |-> "EUR", price |-> 0, price_net_after_discount |-> 0,
     tax_amount |-> 0, tax_rate |-> 0, tax |-> 0, discount |-> 0,
     discount_gross |-> 0]

\* ShippingPrice(...) of an order without one
ShippingPriceWithout(currency) ==
    [currency |-> currency, price |-> 0, price_net_after_discount |-> 0,
     tax_amount |-> 0, tax_rate |-> 0, tax |-> 0, discount |-> 0,
     discount_gross |-> 0]

ShippingPrice(order) ==
    IF Len(order.shipping_line) = 1
    THEN ShippingPriceWith(order.shipping_line[1])
    ELSE ShippingPriceWithout(order.currency)

\* ShipmentOptions naming the option after the shipping line's code
ShipmentOptions_by_code(order) ==
    IF Len(order.shipping_line) = 1
    THEN <<[name |-> order.shipping_line[1].code]>>
    ELSE <<>>

\* [ShipmentOption(name=sl.title)] if sl else []
ShipmentOptions(order) ==
    IF Len(order.shipping_line) = 1
    THEN <<[name |-> order.shipping_line[1].title]>>
    ELSE <<>>

\* CustomerEmail falling back on None alone
CustomerEmail_none_only(email) ==
    IF Len(email) = 0 THEN "unknown@example.com" ELSE email[1]

\* order.email or "unknown@example.com": None and "" are both falsy
CustomerEmail(email) ==
    IF Len(email) = 0 \/ email = Some("") THEN "unknown@example.com" ELSE email[1]

\* OrderCustomAttributes linking back by the order's display name
OrderCustomAttributes_by_name(order) ==
    <<[attribute_key |-> "shopify_order_id", attribute_value |-> order.name]>>

\* [CustomAttribute(attribute_key="shopify_order_id", attribute_value=order.id)]
OrderCustomAttributes(order) ==
    <<[attribute_key |-> "shopify_order_id", attribute_value |-> order.id]>>

\* The exception map_order_to_everstox raises on this Order, None when it
\* returns.  Every required field of the DTOs is given a value on both
\* branches of each conditional; the one constraint an Order can break is
\* OrderItem.quantity >= 1.
MapperError(order) ==
    IF \E i \in 1..Len(order.line_items) : order.line_items[i].quantity < 1
    THEN Some("ValidationError") ELSE None

map_order_to_everstox(order) ==
    [shop_instance_id |-> _SHOP_INSTANCE_ID,
     order_number |-> order.name,
     order_date |-> order.created_at,
     customer_email |-> CustomerEmail(order.email),
     financial_status |-> order.financial_status,
     shipping_address |->
        IF Len(order.shipping_address) = 1
        THEN _map_shipping_address(order.shipping_address[1])
        ELSE FallbackShippingAddress,
     billing_address |->
        IF Len(order.billing_address) = 1
        THEN _map_billing_address(order.billing_address[1])
        ELSE FallbackBillingAddress,
     shipping_price |-> ShippingPrice(order),
     order_items |->
        IF Len(order.line_items) > 0
        THEN _map_order_items(order.line_items, ShipmentOptions(order))
        ELSE <<PlaceholderItem>>,
     custom_attributes |-> OrderCustomAttributes(order)]

----------------------------------------------------------------------------
(* What the mocked provider can answer *)

EUR == "EUR"

TaxLine(rate, amount) == [rate |-> rate, amount |-> amount, currencyCode |-> EUR]

LineItemNode(id, quantity, unfulfilled, sku) ==
    [id |-> id, title |-> "Test Product", quantity |-> quantity,
     unfulfilledQuantity |-> unfulfilled, sku |-> sku,
     amount |-> "10.00", currencyCode |-> EUR,
     taxLines |-> <<TaxLine("0.19", "1.52")>>,
     discountAllocations |-> <<>>, customAttributes |-> <<>>]

ShippingLineNode(original, discounted, taxLines) ==
    [title |-> Some("Standard Shipping"), code |-> Some("standard"),
     originalAmount |-> original, discountedAmount |-> discounted,
     currencyCode |-> EUR, taxLines |-> taxLines]

OrderNode(id, tags, shippingLine, lineItems) ==
    [id |-> id, name |-> Some(id), createdAt |-> "2025-02-01T10:00:00Z",
     displayFinancialStatus |-> "PAID",
     displayFulfillmentStatus |-> Some("UNFULFILLED"),
     tags |-> tags, email |-> Some("customer@example.com"),
     totalPriceSet |-> Some([amount |-> "99.99", currencyCode |-> EUR]),
     shippingAddress |-> None, billingAddress |-> None,
     shippingLine |-> shippingLine, lineItems |-> lineItems]

\* The nodes of the fetch scenarios: untagged, tagged in mixed case, tagged
\* for both lists, and one with an unfulfilled line item whose sku is null.
Node1001 ==
    OrderNode("#1001", Some(<<>>), Some(ShippingLineNode("10.00", "8.00", <<>>)),
              <<LineItemNode("li1", 2, 2, Some("SKU-001"))>>)
Node1002 ==
    OrderNode("#1002", Some(<<"VIP">>), None,
              <<LineItemNode("li2", 3, 1, Some("SKU-002")),
                LineItemNode("li3", 1, 0, Some("SKU-003")),
                LineItemNode("li6", 2, 2, Some("SKU-006"))>>)
Node1003 ==
    OrderNode("#1003", Some(<<"Hold", "vip">>), None,
              <<LineItemNode("li4", 1, 0, Some("SKU-004"))>>)
Node1004 ==
    OrderNode("#1004", Some(<<"hold">>), None,
              <<LineItemNode("li5", 1, 1, None)>>)

\* a raw address whose city is null
AddressNodeWithoutCity ==
    [firstName |-> "Ada", lastName |-> "Lovelace", countryCode |-> "GB",
     city |-> None, zip |-> "N1", address1 |-> "1 Main St", address2 |-> None,
     company |-> None, phone |-> None, country |-> None, province |-> None,
     provinceCode |-> None]

\* three more malformed nodes, all tagged "hold": one without totalPriceSet,
\* one whose shipping address has no city, one without name
Node1005 ==
    [OrderNode("#1005", Some(<<"hold">>), None,
               <<LineItemNode("li7", 1, 1, Some("SKU-007"))>>)
        EXCEPT !.totalPriceSet = None]
Node1006 ==
    [OrderNode("#1006", Some(<<"hold">>), None,
               <<LineItemNode("li8", 1, 1, Some("SKU-008"))>>)
        EXCEPT !.shippingAddress = Some(AddressNodeWithoutCity)]

Node1007 ==
    [OrderNode("#1007", Some(<<"hold">>), None,
               <<LineItemNode("li9", 1, 1, Some("SKU-009"))>>)
        EXCEPT !.name = None]

\* The edge lists a page may carry, cut to MaxEdges
ScenarioEdges ==
    { <<>>,
      <<Node1001>>,
      <<Node1003>>,
      <<Node1001, Node1002>>,
      <<Node1002, Node1001>>,
      <<Node1002, Node1003>>,
      <<Node1004, Node1001>>,
      <<Node1001, Node1004>>,
      <<Node1003, Node1001, Node1002>>,
      <<Node1002, Node1004, Node1001>> }

PageEdges == {edges \in ScenarioEdges : Len(edges) <= MaxEdges}

Cursors == {None, Some("cursor-abc")}

\* extensions.cost of a response; each key may be missing
Extensions ==
    [actualQueryCost : {None, Some(10)},
     currentlyAvailable : {None, Some(40), Some(50), Some(1000)},
     restoreRate : {None, Some(0), Some(50)}]

\* a response without extensions.cost
NoExtensions ==
    [actualQueryCost |-> None, currentlyAvailable |-> None, restoreRate |-> None]

Pages == [hasNextPage : BOOLEAN, endCursor : Cursors, edges : PageEdges]

\* The throttle code never reads the page, so the responses that vary the
\* cost metadata all carry the same one-order page.
ThrottlePages ==
    [hasNextPage : BOOLEAN, endCursor : {Some("cursor-abc")}, edges : {<<Node1001>>}]

\* The pages with a node _map fails on at its first or second step; they
\* are served as final pages only.
MalformedPages ==
    [hasNextPage : {FALSE}, endCursor : {None},
     edges : {<<Node1005, Node1001>>, <<Node1001, Node1006>>, <<Node1007, Node1001>>}]

\* the responses without extensions.cost
PlainResponses == [cost : {NoExtensions}, page : Pages]

Responses ==
    PlainResponses
        \cup [cost : Extensions, page : ThrottlePages]
        \cup [cost : {NoExtensions}, page : MalformedPages]

\* what ShopifyGraphQLClient.execute raises
TransportErrors == {"ShopifyGraphQLError", "HTTPStatusError"}

----------------------------------------------------------------------------
(* State of one OrderRepository.fetch_orders call *)

VARIABLES
    BLACKLIST,            \* class attribute, set before the run
    WHITELIST,            \* class attribute, set before the run
    pc,                   \* "request", "edges", "returned", "raised"
    cursor,               \* local: cursor
    orders,               \* local: orders
    page,                 \* local: page (None before the first response)
    edge_index,           \* position of the for loop in page["edges"]
    actual_cost,          \* local: actual_cost
    currently_available,  \* local: currently_available
    restore_rate,         \* local: restore_rate
    requests,             \* the "after" variable of every execute call, in order
    served,               \* the pages the provider answered, in order
    sleeps,               \* number of time.sleep calls
    last_sleep,           \* None, or the page and duration <<num, den>> of the last one
    error,                \* None, or the exception leaving fetch_orders
    result,               \* None, or the list fetch_orders returned
    map_pc,               \* mapper call: "idle", "ready", "mapped", "raised"
    map_order,            \* None, or the Order handed to map_order_to_everstox
    everstox_order,       \* None, or the EverstoxOrder it returned
    run_pc,               \* Executor.run: "running", "done", "raised"
    sent,                 \* local of run: the (order, everstox_order) pairs
    posted,               \* what the receiver got: payload and answered status
    reports,              \* the arguments of every generate call, in order
    run_error             \* None, or the exception leaving the send loop

vars == <<BLACKLIST, WHITELIST, pc, cursor, orders, page, edge_index,
          actual_cost, currently_available, restore_rate,
          requests, served, sleeps, last_sleep, error, result,
          map_pc, map_order, everstox_order,
          run_pc, sent, posted, reports, run_error>>

config == <<BLACKLIST, WHITELIST>>
throttle_locals == <<actual_cost, currently_available, restore_rate>>
sleep_mock == <<sleeps, last_sleep>>
mapper == <<map_pc, map_order, everstox_order>>
executor == <<run_pc, sent, posted, reports, run_error>>
fetcher == <<config, pc, cursor, orders, page, edge_index, throttle_locals,
             requests, served, sleep_mock, error, result>>

\* fetch_orders entered, nothing requested yet
FetchInit ==
    /\ pc = "request"
    /\ cursor = None
    /\ orders = <<>>
    /\ page = None
    /\ edge_index = 0
    /\ actual_cost = 0
    /\ currently_available = 0
    /\ restore_rate = 0
    /\ requests = <<>>
    /\ served = <<>>
    /\ sleeps = 0
    /\ last_sleep = None
    /\ error = None
    /\ result = None

\* Executor.run entered, nothing sent yet
RunInit ==
    /\ run_pc = "running"
    /\ sent = <<>>
    /\ posted = <<>>
    /\ reports = <<>>
    /\ run_error = None

\* a fetch_orders call under one setting of the two tag lists
Init ==
    /\ BLACKLIST \in SUBSET {"hold", "vip"}
    /\ WHITELIST \in SUBSET {"vip"}
    /\ FetchInit
    /\ RunInit
    /\ map_pc = "idle"
    /\ map_order = None
    /\ everstox_order = None

\* ExecuteRaises with one retry of the request before giving up
ExecuteRaises_retry_once ==
    /\ pc = "request"
    /\ Len(requests) < MaxPages
    /\ \E e \in TransportErrors :
        /\ requests' = Append(Append(requests, cursor), cursor)
        /\ error' = Some(e)
        /\ pc' = "raised"
    /\ UNCHANGED <<config, cursor, orders, page, edge_index, throttle_locals,
                   served, sleep_mock, result, mapper, executor>>

\* self._client.execute(...) raises: nothing catches it
ExecuteRaises ==
    /\ pc = "request"
    /\ Len(requests) < MaxPages
    /\ \E e \in TransportErrors :
        /\ requests' = Append(requests, cursor)
        /\ error' = Some(e)
        /\ pc' = "raised"
    /\ UNCHANGED <<config, cursor, orders, page, edge_index, throttle_locals,
                   served, sleep_mock, result, mapper, executor>>

\* BudgetLowWith that also waits when the budget equals cost + buffer
BudgetLowWith_inclusive(available, cost, buffer) == available <= cost + buffer

\* currently_available < actual_cost + self.COST_BUFFER, for a given buffer
BudgetLowWith(available, cost, buffer) == available < cost + buffer

\* the test under the class's COST_BUFFER
BudgetLow(available, cost) == BudgetLowWith(available, cost, COST_BUFFER)

\* points_needed without the safety buffer
points_needed_no_buffer(available, cost) == cost - available

\* points_needed = (actual_cost + self.COST_BUFFER) - currently_available
points_needed(available, cost) == (cost + COST_BUFFER) - available

\* one pass of the while loop down to page = data["data"]["orders"], the
\* provider answering with one of the given responses
FetchFrom(responses) ==
    /\ pc = "request"
    /\ Len(requests) < MaxPages
    /\ \E data \in responses :
        LET cost == Get(data.cost.actualQueryCost, DEFAULT_COST)
            available == Get(data.cost.currentlyAvailable, DEFAULT_AVAILABLE)
            rate == Get(data.cost.restoreRate, DEFAULT_RESTORE_RATE)
        IN  /\ requests' = Append(requests, cursor)
            /\ served' = Append(served, data.page)
            /\ actual_cost' = cost
            /\ currently_available' = available
            /\ restore_rate' = rate
            /\ IF BudgetLow(available, cost)
               THEN IF rate = 0
                    THEN \* points_needed / restore_rate: ZeroDivisionError
                         /\ error' = Some("ZeroDivisionError")
                         /\ pc' = "raised"
                         /\ UNCHANGED <<page, edge_index, sleep_mock>>
                    ELSE /\ sleeps' = sleeps + 1
                         /\ last_sleep' = Some([call |-> Len(requests) + 1,
                                                num |-> points_needed(available, cost),
                                                den |-> rate])
                         /\ page' = Some(data.page)
                         /\ edge_index' = 1
                         /\ pc' = "edges"
                         /\ UNCHANGED error
               ELSE /\ page' = Some(data.page)
                    /\ edge_index' = 1
                    /\ pc' = "edges"
                    /\ UNCHANGED <<error, sleep_mock>>
    /\ UNCHANGED <<config, cursor, orders, result, mapper, executor>>

\* a pass of the loop against a provider that may send cost metadata
FetchPage == FetchFrom(Responses)

\* a pass of the loop against a provider that sends no extensions.cost
FetchPlainPage == FetchFrom(PlainResponses)

\* order_tags = [tag.lower() for tag in node.get("tags", [])]
order_tags(node) ==
    LET tags == Get(node.tags, <<>>)
    IN  [i \in 1..Len(tags) |-> lower(tags[i])]

\* any(tag in self.BLACKLIST for tag in order_tags)
Blacklisted(node, blacklist) ==
    \E i \in 1..Len(order_tags(node)) : order_tags(node)[i] \in blacklist

\* NotWhitelisted without the "self.WHITELIST and" guard
NotWhitelisted_unguarded(node, whitelist) ==
    ~ \E i \in 1..Len(order_tags(node)) : order_tags(node)[i] \in whitelist

\* self.WHITELIST and not any(tag in self.WHITELIST for tag in order_tags)
NotWhitelisted(node, whitelist) ==
    /\ whitelist # {}
    /\ ~ \E i \in 1..Len(order_tags(node)) : order_tags(node)[i] \in whitelist

\* Excluded with the whitelist check first: a whitelisted order is kept
Excluded_whitelist_first(node, blacklist, whitelist) ==
    IF whitelist # {} /\ ~NotWhitelisted(node, whitelist) THEN FALSE
    ELSE Blacklisted(node, blacklist) \/ NotWhitelisted(node, whitelist)

\* the two "continue" branches of the loop body
Excluded(node, blacklist, whitelist) ==
    IF Blacklisted(node, blacklist) THEN TRUE
    ELSE NotWhitelisted(node, whitelist)

\* The exception the log line of an excluded node raises, None when it
\* logs: logger.info(f"Order {node['name']} excluded ...") subscripts name.
ExclusionLogError(node) == IF Len(node.name) = 0 THEN Some("KeyError") ELSE None

\* ProcessEdge skipping a node _map fails on instead of raising
ProcessEdge_skip_malformed ==
    /\ pc = "edges"
    /\ edge_index <= Len(page[1].edges)
    /\ LET node == page[1].edges[edge_index]
       IN  IF Excluded(node, BLACKLIST, WHITELIST)
           THEN IF ExclusionLogError(node) # None
                THEN /\ error' = ExclusionLogError(node)
                     /\ pc' = "raised"
                     /\ UNCHANGED <<orders, edge_index>>
                ELSE /\ edge_index' = edge_index + 1
                     /\ UNCHANGED <<orders, error, pc>>
           ELSE IF MapError(node) # None
           THEN /\ edge_index' = edge_index + 1
                /\ UNCHANGED <<orders, error, pc>>
           ELSE /\ orders' = Append(orders, _map(node))
                /\ edge_index' = edge_index + 1
                /\ UNCHANGED <<error, pc>>
    /\ UNCHANGED <<config, cursor, page, throttle_locals, requests, served,
                   sleep_mock, result, mapper, executor>>

\* one iteration of "for edge in page["edges"]"
ProcessEdge ==
    /\ pc = "edges"
    /\ edge_index <= Len(page[1].edges)
    /\ LET node == page[1].edges[edge_index]
       IN  IF Excluded(node, BLACKLIST, WHITELIST)
           THEN IF ExclusionLogError(node) # None
                THEN /\ error' = ExclusionLogError(node)
                     /\ pc' = "raised"
                     /\ UNCHANGED <<orders, edge_index>>
                ELSE /\ edge_index' = edge_index + 1
                     /\ UNCHANGED <<orders, error, pc>>
           ELSE IF MapError(node) # None
           THEN /\ error' = MapError(node)
                /\ pc' = "raised"
                /\ UNCHANGED <<orders, edge_index>>
           ELSE /\ orders' = Append(orders, _map(node))
                /\ edge_index' = edge_index + 1
                /\ UNCHANGED <<error, pc>>
    /\ UNCHANGED <<config, cursor, page, throttle_locals, requests, served,
                   sleep_mock, result, mapper, executor>>

\* NextCursor that never advances
NextCursor_stale(page_info) == None

\* the cursor the next request carries: cursor = page_info["endCursor"]
NextCursor(page_info) == page_info.endCursor

\* EndOfPage with a cursor check: a null endCursor also ends the loop
EndOfPage_stop_on_null_cursor ==
    /\ pc = "edges"
    /\ edge_index > Len(page[1].edges)
    /\ IF ~ page[1].hasNextPage \/ page[1].endCursor = None
       THEN /\ result' = Some(orders)
            /\ pc' = "returned"
            /\ UNCHANGED cursor
       ELSE /\ cursor' = NextCursor(page[1])
            /\ pc' = "request"
            /\ UNCHANGED result
    /\ UNCHANGED <<config, orders, page, edge_index, throttle_locals, requests,
                   served, sleep_mock, error, mapper, executor>>

\* page_info = page["pageInfo"]; break, or take the cursor and loop
EndOfPage ==
    /\ pc = "edges"
    /\ edge_index > Len(page[1].edges)
    /\ IF ~ page[1].hasNextPage
       THEN /\ result' = Some(orders)
            /\ pc' = "returned"
            /\ UNCHANGED cursor
       ELSE /\ cursor' = NextCursor(page[1])
            /\ pc' = "request"
            /\ UNCHANGED result
    /\ UNCHANGED <<config, orders, page, edge_index, throttle_locals, requests,
                   served, sleep_mock, error, mapper, executor>>

Next == ExecuteRaises \/ FetchPage \/ ProcessEdge \/ EndOfPage

Spec == Init /\ [][Next]_vars

\* fetch_orders against a provider that never sends cost metadata
PlainNext == ExecuteRaises \/ FetchPlainPage \/ ProcessEdge \/ EndOfPage

PlainSpec == Init /\ [][PlainNext]_vars

----------------------------------------------------------------------------
(* Executor.run after the fetch: map, send, report *)

\* the statuses the receiver can answer a POST with
EverstoxStatuses == {201, 400, 500}

\* is_success taking every status below 500 for a success
is_success_below_500(status_code) == status_code < 500

\* httpx.Response.is_success: a 2xx status
is_success(status_code) == status_code \in 200..299

\* NextOrder walking the fetched list from its end
NextOrder_last_first(fetched, pairs) == fetched[Len(fetched) - Len(pairs)]

\* for order in orders: the order of the iteration that follows len(sent)
\* completed ones
NextOrder(fetched, pairs) == fetched[Len(pairs) + 1]

\* One iteration of the send loop: map the order, POST the payload, and
\* either append the pair or let the exception leave run.
SendOrder ==
    /\ pc = "returned"
    /\ run_pc = "running"
    /\ Len(sent) < Len(result[1])
    /\ LET order == NextOrder(result[1], sent)
       IN  IF MapperError(order) # None
           THEN /\ run_pc' = "raised"
                /\ run_error' = MapperError(order)
                /\ UNCHANGED <<sent, posted>>
           ELSE \E status_code \in EverstoxStatuses :
                LET payload == map_order_to_everstox(order)
                IN  /\ posted' = Append(posted,
                                    [payload |-> payload, status_code |-> status_code])
                    /\ IF is_success(status_code)
                       THEN /\ sent' = Append(sent, <<order, payload>>)
                            /\ UNCHANGED <<run_pc, run_error>>
                       ELSE /\ run_pc' = "raised"
                            /\ run_error' = Some("EverstoxAPIError")
                            /\ UNCHANGED sent
    /\ UNCHANGED <<fetcher, mapper, reports>>

\* report_path = self._report_service.generate(orders, sent)
Report ==
    /\ pc = "returned"
    /\ run_pc = "running"
    /\ Len(sent) = Len(result[1])
    /\ reports' = Append(reports, [orders |-> result[1], pairs |-> sent])
    /\ run_pc' = "done"
    /\ UNCHANGED <<fetcher, mapper, sent, posted, run_error>>

\* Executor.run with the two tag lists as the class declares them
ExecutorInit ==
    /\ BLACKLIST = {}
    /\ WHITELIST = {}
    /\ FetchInit
    /\ RunInit
    /\ map_pc = "idle"
    /\ map_order = None
    /\ everstox_order = None

RunNext ==
    \/ ExecuteRaises
    \/ FetchPage
    \/ ProcessEdge
    \/ EndOfPage
    \/ SendOrder
    \/ Report

RunSpec == ExecutorInit /\ [][RunNext]_vars

\* fetch_orders under the class's tag lists, run to its end: the loop is
\* sequential code, so a step that can be taken is taken
FairSpec == ExecutorInit /\ [][Next]_vars /\ WF_vars(Next)

----------------------------------------------------------------------------
(* map_order_to_everstox applied to one Order *)

RECURSIVE SeqsUpTo(_, _)
\* all sequences over S of length at most n
SeqsUpTo(S, n) ==
    IF n = 0 THEN {<<>>}
    ELSE LET shorter == SeqsUpTo(S, n - 1)
         IN  shorter \cup {Append(q, x) : q \in shorter, x \in S}

TaxLineValues ==
    { [rate |-> 19, amount |-> 152, currency |-> EUR],
      [rate |-> 7, amount |-> 50, currency |-> EUR] }

ShippingLines ==
    [title : {None, Some("Express")}, code : {None},
     original_price : {800, 1000}, discounted_price : {0, 800},
     currency : {EUR}, tax_lines : SeqsUpTo(TaxLineValues, MaxTaxLines)]

\* the OrderShippingAddress values: one with every optional field, one with none
ShippingAddresses ==
    {[first_name |-> "Ada", last_name |-> "Lovelace", country_code |-> "GB",
      city |-> "London", zip |-> "N1", address_1 |-> "1 Main St",
      address_2 |-> Some("Flat 2"), phone |-> Some("+44"),
      province |-> Some("England")],
     [first_name |-> "Max", last_name |-> "Muster", country_code |-> "DE",
      city |-> "Berlin", zip |-> "10115", address_1 |-> "Hauptstr. 1",
      address_2 |-> None, phone |-> None, province |-> None]}

\* the OrderBillingAddress values: one with every optional field, one with none
BillingAddresses ==
    {[first_name |-> "Grace", last_name |-> "Hopper", country_code |-> "US",
      city |-> "Arlington", zip |-> "22201", address_1 |-> "2 Side St",
      address_2 |-> Some("Suite 3"), company |-> Some("Navy"),
      phone |-> Some("+1"), country |-> Some("United States"),
      province |-> Some("Virginia"), province_code |-> Some("VA")],
     [first_name |-> "Erika", last_name |-> "Beispiel", country_code |-> "AT",
      city |-> "Wien", zip |-> "1010", address_1 |-> "Ring 5",
      address_2 |-> None, company |-> None, phone |-> None, country |-> None,
      province |-> None, province_code |-> None]}

LineItem1 ==
    [id |-> "li1", title |-> "Test Product", quantity |-> 2, sku |-> "SKU-001",
     price |-> 1000, currency |-> EUR,
     tax_lines |-> <<[rate |-> 19, amount |-> 152, currency |-> EUR],
                     [rate |-> 7, amount |-> 50, currency |-> EUR]>>,
     discount_total |-> 200,
     custom_attributes |-> <<[key |-> "gift_message", value |-> "Happy Birthday"],
                             [key |-> "engraving", value |-> "A"]>>]

LineItem2 ==
    [id |-> "li2", title |-> "Other Product", quantity |-> 1, sku |-> "SKU-002",
     price |-> 800, currency |-> EUR, tax_lines |-> <<>>, discount_total |-> 0,
     custom_attributes |-> <<>>]

\* the Orders handed to the mapper
MapperOrders ==
    [id : {"gid://shopify/Order/1"}, name : {"#1001"},
     created_at : {"2025-02-01T10:00:00Z"}, financial_status : {"PAID"},
     fulfillment_status : {Some("UNFULFILLED")}, total_price : {"99.99"},
     currency : {EUR, "USD"}, tags : {<<>>},
     email : {None, Some(""), Some("test@shop.com")},
     shipping_address : {None} \cup {Some(a) : a \in ShippingAddresses},
     billing_address : {None} \cup {Some(a) : a \in BillingAddresses},
     shipping_line : {None} \cup {Some(sl) : sl \in ShippingLines},
     line_items : {<<>>, <<LineItem1>>, <<LineItem2, LineItem1>>}]

\* a mapper call about to be made on one Order; no fetch in progress
MapInit ==
    /\ BLACKLIST = {}
    /\ WHITELIST = {}
    /\ FetchInit
    /\ map_pc = "ready"
    /\ map_order \in {Some(o) : o \in MapperOrders}
    /\ everstox_order = None
    /\ RunInit

\* result = map_order_to_everstox(order)
MapOrder ==
    /\ map_pc = "ready"
    /\ IF MapperError(map_order[1]) = None
       THEN /\ everstox_order' = Some(map_order_to_everstox(map_order[1]))
            /\ map_pc' = "mapped"
       ELSE /\ everstox_order' = None
            /\ map_pc' = "raised"
    /\ UNCHANGED <<fetcher, map_order, executor>>

MapNext == MapOrder

MapSpec == MapInit /\ [][MapNext]_vars

----------------------------------------------------------------------------
(* Vocabulary of the properties *)

RECURSIVE ServedNodes(_)
\* the nodes of the given pages, in page order and within-page order
ServedNodes(pages) ==
    IF Len(pages) = 0 THEN <<>>
    ELSE ServedNodes(SubSeq(pages, 1, Len(pages) - 1)) \o pages[Len(pages)].edges

\* the lowercased tags of a raw node, as a set
LowerTags(node) == {lower(Get(node.tags, <<>>)[i]) : i \in 1..Len(Get(node.tags, <<>>))}

DenyListed(node) == LowerTags(node) \cap BLACKLIST # {}
AllowListed(node) == WHITELIST = {} \/ LowerTags(node) \cap WHITELIST # {}
Survives(node) == ~DenyListed(node) /\ AllowListed(node)

\* whether the list of Orders holds the Order of this node
Holds(list, node) == \E i \in 1..Len(list) : list[i].id = node.id

Returned == pc = "returned"

\* the list fetch_orders returned
Result == result[1]

\* C1: a fetch that returns after N pages issued exactly N requests, the first
\* with after = null and request k+1 with the endCursor of response k, every
\* page but the last had hasNextPage = true, and the returned list is the
\* surviving orders of all pages in page order and within-page order.
C1_Pagination ==
    /\ Len(requests) > 0 => requests[1] = None
    /\ \A k \in 1..(Len(requests) - 1) :
          /\ k <= Len(served)
          /\ served[k].hasNextPage
          /\ requests[k + 1] = served[k].endCursor
    /\ Returned =>
          /\ Len(requests) = Len(served)
          /\ Len(served) >= 1
          /\ ~served[Len(served)].hasNextPage
          /\ LET kept == SelectSeq(ServedNodes(served), Survives)
             IN  Result = [i \in 1..Len(kept) |-> _map(kept[i])]
          /\ (Len(served) = 1 /\ served[1].edges = <<>> => Result = <<>>)

\* two pages followed by cursor; both contribute and one node is filtered out
C1_Witness ==
    /\ Returned
    /\ Len(requests) = 2
    /\ requests[2] = Some("cursor-abc")
    /\ Len(served[1].edges) = 2
    /\ Len(served[2].edges) = 2
    /\ Len(Result) = 3
    /\ Result[1].id = "#1002"

\* C2: an order whose lowercased tags meet the deny-list is never collected
\* nor returned, whatever the allow-list holds.
C2_DenyListPrecedence ==
    \A i \in 1..Len(ServedNodes(served)) :
        LET node == ServedNodes(served)[i]
        IN  DenyListed(node) =>
                /\ ~Holds(orders, node)
                /\ (Returned => ~Holds(Result, node))

\* a node on both lists was served, and dropped, while its neighbour was kept
C2_Witness ==
    /\ Returned
    /\ BLACKLIST = {"hold"}
    /\ WHITELIST = {"vip"}
    /\ served[1].edges = <<Node1002, Node1003>>
    /\ LowerTags(Node1003) \cap WHITELIST # {}
    /\ Holds(Result, Node1002)
    /\ ~Holds(Result, Node1003)

\* C3: of the nodes not on the deny-list, the returned list holds exactly
\* those for which the allow-list is empty or shares a lowercased tag.
C3_AllowListRule ==
    Returned =>
        \A i \in 1..Len(ServedNodes(served)) :
            LET node == ServedNodes(served)[i]
            IN  ~DenyListed(node) => (Holds(Result, node) <=> AllowListed(node))

\* non-empty allow-list: the untagged order is dropped, the "VIP" one kept
C3_Witness ==
    /\ Returned
    /\ WHITELIST = {"vip"}
    /\ BLACKLIST = {}
    /\ served[1].edges = <<Node1001, Node1002>>
    /\ Len(Result) = 1
    /\ Result[1].id = "#1002"

\* the response of the last request was received (no transport error)
Answered == Len(served) > 0 /\ Len(served) = Len(requests)

\* time.sleep was called while handling the latest response
SleptOnLastResponse == last_sleep # None /\ last_sleep[1].call = Len(served)

\* C4: after a response with cost c, budget a, rate r > 0 the fetcher sleeps
\* (c + COST_BUFFER - a) / r seconds when a < c + COST_BUFFER, and does not
\* sleep when a >= c + COST_BUFFER.
C4_ThrottleAmount ==
    (Answered /\ restore_rate > 0) =>
        IF currently_available < actual_cost + COST_BUFFER
        THEN /\ SleptOnLastResponse
             /\ last_sleep[1].den > 0
             /\ last_sleep[1].num * restore_rate =
                    (actual_cost + COST_BUFFER - currently_available) * last_sleep[1].den
        ELSE ~SleptOnLastResponse

\* a = 50, c = 10, b = 50, r = 50: slept 0.2 s = 1/5 s
C4_Witness ==
    /\ Answered
    /\ currently_available = 50
    /\ actual_cost = 10
    /\ restore_rate = 50
    /\ SleptOnLastResponse
    /\ last_sleep[1].num * 5 = last_sleep[1].den

\* C5: no sleep belongs to the final page: when fetch_orders returns, it has
\* not slept since it received the last response.
C5_SleepOnlyBetweenPages == Returned => ~SleptOnLastResponse

\* C6: a response whose budget is below cost + buffer is handled by sleeping,
\* whatever its restoreRate; fetch_orders does not raise on it.
C6_ThrottleNeverRaises ==
    (Answered /\ currently_available < actual_cost + COST_BUFFER) =>
        /\ SleptOnLastResponse
        /\ error # Some("ZeroDivisionError")

\* C7: when execute raises on request k, fetch_orders raises that error,
\* request k is its last request, and nothing is returned.
C7_FailFast ==
    \A e \in TransportErrors :
        error = Some(e) =>
            /\ pc = "raised"
            /\ result = None
            /\ Len(requests) = Len(served) + 1

\* the second request fails after the first page's orders were collected
C7_Witness ==
    /\ error = Some("ShopifyGraphQLError")
    /\ Len(requests) = 2
    /\ Len(orders) = 2
    /\ result = None

\* the positions of the raw line items with unfulfilledQuantity > 0
OpenPositions(raw) == {i \in 1..Len(raw) : raw[i].unfulfilledQuantity > 0}

\* the j-th smallest of them
OpenPosition(raw, j) ==
    CHOOSE p \in OpenPositions(raw) : Cardinality({q \in OpenPositions(raw) : q < p}) = j - 1

\* C8: the line_items of every returned Order are the raw line items with
\* unfulfilledQuantity > 0, in their order, each with that quantity.
C8_UnfulfilledQuantity ==
    Returned =>
        \A i \in 1..Len(ServedNodes(served)) : \A k \in 1..Len(Result) :
            LET node == ServedNodes(served)[i]
                raw == node.lineItems
                items == Result[k].line_items
            IN  Result[k].id = node.id =>
                    /\ Len(items) = Cardinality(OpenPositions(raw))
                    /\ \A j \in 1..Len(items) :
                          /\ items[j].id = raw[OpenPosition(raw, j)].id
                          /\ items[j].quantity = raw[OpenPosition(raw, j)].unfulfilledQuantity
                          /\ items[j].quantity > 0

\* order #1002: raw quantities 3, 1, 2 with 1, 0, 2 unfulfilled
C8_Witness ==
    /\ Returned
    /\ Len(Result) > 0
    /\ Result[1].id = "#1002"
    /\ Len(Node1002.lineItems) = 3
    /\ Len(Result[1].line_items) = 2
    /\ Result[1].line_items[1].quantity = 1
    /\ Node1002.lineItems[1].quantity = 3
    /\ Result[1].line_items[2].id = "li6"

\* the mapper has returned for an Order with a shipping line
MappedWithShippingLine == map_pc = "mapped" /\ Len(map_order[1].shipping_line) = 1

C10_ShippingTaxAndDiscount ==
    MappedWithShippingLine =>
        LET sl == map_order[1].shipping_line[1]
            sp == everstox_order[1].shipping_price
            amounts == [i \in 1..Len(sl.tax_lines) |-> sl.tax_lines[i].amount]
        IN  /\ sp.tax_amount = Sum(amounts)
            /\ sp.tax_rate = IF sl.tax_lines = <<>> THEN 0 ELSE Head(sl.tax_lines).rate
            /\ sp.discount = sl.original_price - sl.discounted_price
            /\ sp.price_net_after_discount = sl.discounted_price - sp.tax_amount

\* two tax lines with different rates: 0.19 first, amounts 1.52 + 0.50
C10_Witness ==
    /\ MappedWithShippingLine
    /\ Len(map_order[1].shipping_line[1].tax_lines) = 2
    /\ map_order[1].shipping_line[1].tax_lines[1].rate = 19
    /\ map_order[1].shipping_line[1].tax_lines[2].rate = 7
    /\ map_order[1].shipping_line[1].original_price = 1000
    /\ map_order[1].shipping_line[1].discounted_price = 800
    /\ everstox_order[1].shipping_price.tax_rate = 19
    /\ everstox_order[1].shipping_price.tax_amount = 202
    /\ everstox_order[1].shipping_price.discount = 200
    /\ everstox_order[1].shipping_price.price_net_after_discount = 598

\* the mapper has returned for an Order without a shipping line
MappedWithoutShippingLine == map_pc = "mapped" /\ Len(map_order[1].shipping_line) = 0

\* C11: without a shipping line every numeric field of the shipping price
\* is 0 and its currency is the order's currency.
C11_NoShippingLineZeros ==
    MappedWithoutShippingLine =>
        LET sp == everstox_order[1].shipping_price
        IN  /\ sp.price = 0
            /\ sp.price_net_after_discount = 0
            /\ sp.tax_amount = 0
            /\ sp.tax_rate = 0
            /\ sp.tax = 0
            /\ sp.discount = 0
            /\ sp.discount_gross = 0
            /\ sp.currency = map_order[1].currency

\* an order in USD without a shipping line
C11_Witness ==
    /\ MappedWithoutShippingLine
    /\ map_order[1].currency = "USD"
    /\ everstox_order[1].shipping_price.currency = "USD"
    /\ everstox_order[1].shipping_price.price = 0

\* the mapper call has ended, by returning or by raising
MapperDone == map_pc \in {"mapped", "raised"}

\* C12: an absent shipping or billing address never makes the mapper raise:
\* the absent one is emitted as the sentinel address ("TODO" names, city and
\* address line, "00000", "DE"); a present one is copied field for field.
C12_AddressFallback ==
    MapperDone =>
        LET order == map_order[1]
        IN  /\ (Len(order.shipping_address) = 0 \/ Len(order.billing_address) = 0)
                => map_pc = "mapped"
            /\ (map_pc = "mapped" /\ Len(order.shipping_address) = 0)
                => LET a == everstox_order[1].shipping_address
                   IN  /\ a.first_name = "TODO" /\ a.last_name = "TODO"
                       /\ a.city = "TODO" /\ a.address_1 = "TODO"
                       /\ a.zip = "00000" /\ a.country_code = "DE"
            /\ (map_pc = "mapped" /\ Len(order.billing_address) = 0)
                => LET b == everstox_order[1].billing_address
                   IN  /\ b.first_name = "TODO" /\ b.last_name = "TODO"
                       /\ b.city = "TODO" /\ b.address_1 = "TODO"
                       /\ b.zip = "00000" /\ b.country_code = "DE"
            /\ (map_pc = "mapped" /\ Len(order.shipping_address) = 1)
                => everstox_order[1].shipping_address = order.shipping_address[1]
            /\ (map_pc = "mapped" /\ Len(order.billing_address) = 1)
                => everstox_order[1].billing_address = order.billing_address[1]

\* a present shipping address with every optional field next to an absent
\* billing address
C12_Witness ==
    /\ map_pc = "mapped"
    /\ Len(map_order[1].shipping_address) = 1
    /\ Len(map_order[1].shipping_address[1].address_2) = 1
    /\ Len(map_order[1].billing_address) = 0
    /\ everstox_order[1].shipping_address.first_name = "Ada"
    /\ everstox_order[1].shipping_address.last_name = "Lovelace"
    /\ everstox_order[1].billing_address.zip = "00000"

\* the mapper has returned
Mapped == map_pc = "mapped"

\* the items of the payload
OrderItems == everstox_order[1].order_items

C15_NeverItemless ==
    Mapped =>
        LET line_items == map_order[1].line_items
        IN  /\ Len(OrderItems) >= 1
            /\ Len(line_items) = 0 =>
                /\ Len(OrderItems) = 1
                /\ OrderItems[1].quantity = 1
                /\ OrderItems[1].product.sku = "TODO"
            /\ Len(line_items) >= 1 =>
                /\ Len(OrderItems) = Len(line_items)
                /\ \A i \in 1..Len(line_items) :
                    /\ OrderItems[i].quantity = line_items[i].quantity
                    /\ OrderItems[i].product.sku = line_items[i].sku

\* two different line items, mapped in their order
C15_Witness ==
    /\ Mapped
    /\ Len(map_order[1].line_items) = 2
    /\ OrderItems[1].product.sku = "SKU-002" /\ OrderItems[1].quantity = 1
    /\ OrderItems[2].product.sku = "SKU-001" /\ OrderItems[2].quantity = 2

\* C16: the single price-set entry of a mapped line item has price = unit
\* price, quantity = item quantity, price_net_after_discount = price minus
\* discount_total, tax_amount = sum of the tax-line amounts, tax_rate = the
\* first tax line's rate or 0, discount = discount_gross = discount_total;
\* the item's custom attributes are its key/value pairs in order.
C16_LineItemPriceSet ==
    Mapped =>
        LET line_items == map_order[1].line_items
        IN  \A i \in 1..Len(line_items) :
                LET item == line_items[i]
                    out == OrderItems[i]
                IN  /\ Len(out.price_set) = 1
                    /\ out.price_set[1].price = item.price
                    /\ out.price_set[1].quantity = item.quantity
                    /\ out.price_set[1].price_net_after_discount =
                            item.price - item.discount_total
                    /\ out.price_set[1].tax_amount =
                            Sum([j \in 1..Len(item.tax_lines) |-> item.tax_lines[j].amount])
                    /\ out.price_set[1].tax_rate =
                            (IF item.tax_lines = <<>> THEN 0 ELSE item.tax_lines[1].rate)
                    /\ out.price_set[1].discount = item.discount_total
                    /\ out.price_set[1].discount_gross = item.discount_total
                    /\ Len(out.custom_attributes) = Len(item.custom_attributes)
                    /\ \A j \in 1..Len(item.custom_attributes) :
                        /\ out.custom_attributes[j].attribute_key =
                                item.custom_attributes[j].key
                        /\ out.custom_attributes[j].attribute_value =
                                item.custom_attributes[j].value

\* a discounted line item with two tax lines and two custom attributes
C16_Witness ==
    /\ Mapped
    /\ Len(map_order[1].line_items) = 1
    /\ map_order[1].line_items[1].discount_total = 200
    /\ OrderItems[1].price_set[1].price = 1000
    /\ OrderItems[1].price_set[1].price_net_after_discount = 800
    /\ OrderItems[1].price_set[1].tax_amount = 202
    /\ OrderItems[1].price_set[1].tax_rate = 19
    /\ OrderItems[1].custom_attributes[2].attribute_key = "engraving"

\* C17 as stated: customer_email is the order's email when it has one, and
\* the sentinel "unknown@example.com" exactly when the email is absent.
C17_SentinelOnlyWhenAbsent ==
    Mapped =>
        LET email == map_order[1].email
            out == everstox_order[1].customer_email
        IN  /\ Len(email) = 1 => out = email[1]
            /\ (out = "unknown@example.com") <=> (Len(email) = 0)

\* C17 amended: customer_email is the order's email when that is a non-empty
\* string, and the sentinel "unknown@example.com" exactly when the email is
\* absent or the empty string.
C17_SentinelWhenAbsentOrEmpty ==
    Mapped =>
        LET email == map_order[1].email
            out == everstox_order[1].customer_email
        IN  /\ (Len(email) = 1 /\ email[1] # "") => out = email[1]
            /\ (out = "unknown@example.com") <=> (Len(email) = 0 \/ email = Some(""))

\* an order whose email is the empty string, sent under the sentinel
C17_Witness ==
    /\ Mapped
    /\ map_order[1].email = Some("")
    /\ everstox_order[1].customer_email = "unknown@example.com"

\* C18: the payload's custom_attributes always holds one entry with key
\* "shopify_order_id" whose value is the order's id, whatever else the order
\* has or lacks.
C18_ShopifyOrderId ==
    Mapped =>
        LET attrs == everstox_order[1].custom_attributes
            linking == {i \in 1..Len(attrs) : attrs[i].attribute_key = "shopify_order_id"}
        IN  /\ Cardinality(linking) = 1
            /\ \A i \in linking : attrs[i].attribute_value = map_order[1].id

\* an order without addresses, line items or shipping line, still linked
C18_Witness ==
    /\ Mapped
    /\ map_order[1].shipping_address = None
    /\ map_order[1].billing_address = None
    /\ map_order[1].line_items = <<>>
    /\ map_order[1].shipping_line = None
    /\ everstox_order[1].custom_attributes[1].attribute_value = "gid://shopify/Order/1"

\* the (order, payload) pairs of the first n fetched orders
Pairs(n) == [i \in 1..n |-> <<Result[i], map_order_to_everstox(Result[i])>>]

\* C19: no order is sent before the fetch has returned; the fetched orders
\* are mapped and POSTed one time each in fetched order; the report
\* generator is called once, after every send succeeded, with the fetched
\* orders and the pairs of all of them in the same order.
C19_RunSequencing ==
    /\ (posted # <<>> \/ sent # <<>> \/ reports # <<>>) => Returned
    /\ Returned =>
        /\ Len(posted) <= Len(Result)
        /\ \A i \in 1..Len(posted) :
                posted[i].payload = map_order_to_everstox(Result[i])
        /\ Len(sent) <= Len(posted)
        /\ sent = Pairs(Len(sent))
    /\ Len(reports) <= 1
    /\ (reports # <<>>) <=> (run_pc = "done")
    /\ run_pc = "done" =>
        /\ Len(posted) = Len(Result)
        /\ \A i \in 1..Len(posted) : posted[i].status_code \in 200..299
        /\ reports[1].orders = Result
        /\ reports[1].pairs = Pairs(Len(Result))

\* three fetched orders, all accepted, reported in fetched order
C19_Witness ==
    /\ run_pc = "done"
    /\ Len(Result) = 3
    /\ Result[1].id # Result[2].id
    /\ Len(posted) = 3
    /\ posted[2].payload.order_number = Result[2].name
    /\ Len(reports[1].pairs) = 3
    /\ reports[1].pairs[3][1] = Result[3]

\* C20: a non-success answer to the k-th POST makes run raise
\* EverstoxAPIError: it is the last POST of the run, no report is generated,
\* and the k-1 orders before it stay submitted and accepted.
C20_AbortOnFirstFailure ==
    \A k \in 1..Len(posted) :
        posted[k].status_code \notin 200..299 =>
            /\ k = Len(posted)
            /\ run_pc = "raised"
            /\ run_error = Some("EverstoxAPIError")
            /\ reports = <<>>
            /\ posted[k].payload = map_order_to_everstox(Result[k])
            /\ Len(sent) = k - 1
            /\ \A i \in 1..(k - 1) :
                /\ posted[i].status_code \in 200..299
                /\ posted[i].payload = map_order_to_everstox(Result[i])

\* the second of three orders is refused with a 400: one submitted, one
\* refused, one never sent, no report
C20_Witness ==
    /\ run_pc = "raised"
    /\ Len(Result) = 3
    /\ Len(posted) = 2
    /\ posted[1].status_code = 201
    /\ posted[2].status_code = 400
    /\ Len(sent) = 1
    /\ reports = <<>>

\* C21: every Order fetch_orders returns holds only lowercase tags, the
\* node's tags normalised as for the deny/allow comparison.
C21_TagsLowercase ==
    Returned =>
        \A i \in 1..Len(Result) :
            \A j \in 1..Len(Result[i].tags) :
                Result[i].tags[j] = lower(Result[i].tags[j])

\* the exceptions OrderRepository._map raises
MappingErrors == {Some("KeyError"), Some("ValidationError")}

\* the node of the current loop iteration
CurrentNode == page[1].edges[edge_index]

\* C22: a node that survives the tag filter and lacks a required field makes
\* fetch_orders raise: no Order is ever built from it, the call never
\* returns past it, and the orders collected before it are not returned.
C22_MalformedIsHardFailure ==
    /\ \A i \in 1..Len(ServedNodes(served)) :
        LET node == ServedNodes(served)[i]
        IN  (Survives(node) /\ MapError(node) # None) =>
                /\ ~Returned
                /\ ~Holds(orders, node)
    /\ (pc = "raised" /\ error \in MappingErrors) =>
        /\ result = None
        /\ Survives(CurrentNode) => error = MapError(CurrentNode)

\* a second page whose node has no totalPriceSet: KeyError, with the order
\* of the first page collected and not returned
C22_Witness ==
    /\ pc = "raised"
    /\ error = Some("KeyError")
    /\ Len(served) = 2
    /\ CurrentNode = Node1005
    /\ Len(orders) >= 1
    /\ result = None

\* the served nodes that lack a required field
MalformedServed ==
    {i \in 1..Len(ServedNodes(served)) : MapError(ServedNodes(served)[i]) # None}

\* C23: a node excluded by the deny-list or by a non-empty allow-list is
\* never mapped, so a malformed node that is filtered out cannot make
\* fetch_orders raise: an error of the loop body only ever comes from a
\* surviving node, and when the fetch returns every surviving node of its
\* pages is in the result.
C23_FilterBeforeMap ==
    /\ error \in MappingErrors => Survives(CurrentNode)
    /\ (\A i \in MalformedServed : ~Survives(ServedNodes(served)[i]))
            => error \notin MappingErrors
    /\ Returned =>
        \A i \in 1..Len(ServedNodes(served)) :
            Survives(ServedNodes(served)[i]) => Holds(Result, ServedNodes(served)[i])

\* the throttle test on a response without extensions.cost is false for
\* every buffer from 0 up to the default budget
PlainBudgetNeverLow ==
    \A buffer \in 0..DEFAULT_AVAILABLE :
        ~BudgetLowWith(Get(NoExtensions.currentlyAvailable, DEFAULT_AVAILABLE),
                       Get(NoExtensions.actualQueryCost, DEFAULT_COST), buffer)

\* C24: a response without extensions.cost is read as cost 0 and budget
\* 1000, which is not below cost + buffer for any buffer from 0 to 1000, so
\* no sleep follows it; under the default buffer a fetch over pages that
\* all lack the metadata never sleeps.
C24_NoMetadataNoSleep ==
    /\ PlainBudgetNeverLow
    /\ Answered => /\ actual_cost = 0
                   /\ currently_available = 1000
                   /\ ~BudgetLow(currently_available, actual_cost)
    /\ sleeps = 0
    /\ last_sleep = None

\* a fetch that returned after two pages without metadata and never slept
C24_Witness ==
    /\ Returned
    /\ Len(served) = 2
    /\ actual_cost = 0
    /\ currently_available = 1000
    /\ sleeps = 0

\* the loop is over: fetch_orders returned or raised
Ended == pc \in {"returned", "raised"}

\* every page served so far announced a next page
AllAnnounceMore == \A k \in 1..Len(served) : served[k].hasNextPage

\* what the loop does with pageInfo: it returns only on hasNextPage = false,
\* goes back to the request on anything else, and sends whatever endCursor
\* it was given, null and repeated cursors included
StopsOnlyOnLastPage ==
    /\ \A k \in 1..(Len(served) - 1) : served[k].hasNextPage
    /\ Returned => (Len(served) >= 1 /\ ~served[Len(served)].hasNextPage)
    /\ AllAnnounceMore => ~Returned
    /\ \A k \in 1..(Len(requests) - 1) : requests[k + 1] = served[k].endCursor
    /\ (pc = "request" /\ Len(served) >= 1) =>
            /\ served[Len(served)].hasNextPage
            /\ cursor = served[Len(served)].endCursor

\* C25: fetch_orders stops requesting if and only if a response has
\* hasNextPage = false: it ends once such a page is reached, and on
\* hasNextPage = true it goes back to the request with the endCursor it was
\* given, null or repeated, without returning.
C25_StopsIffNoNextPage ==
    /\ []StopsOnlyOnLastPage
    /\ (pc = "edges" /\ ~page[1].hasNextPage) ~> Ended

\* two identical answers with hasNextPage = true and a null endCursor: the
\* same request was issued twice and the loop is about to issue it again
C25_Witness ==
    /\ pc = "request"
    /\ Len(requests) = 2
    /\ requests[2] = None
    /\ served[1].hasNextPage
    /\ served[1].endCursor = None
    /\ served[2] = served[1]
    /\ cursor = None
    /\ result = None

\* the served nodes none of whose line items is open
FullyFulfilled(node) == OpenPositions(node.lineItems) = {}

\* C26: an order whose raw line items all have unfulfilledQuantity = 0 is
\* returned by fetch_orders with an empty line_items list, and Executor.run
\* submits it like any other, carrying the single placeholder item
\* (quantity 1, SKU "TODO").
C26_FulfilledOrderStillSent ==
    Returned =>
        /\ \A i \in 1..Len(ServedNodes(served)) :
            LET node == ServedNodes(served)[i]
            IN  (Survives(node) /\ FullyFulfilled(node)) =>
                    \E k \in 1..Len(Result) :
                        /\ Result[k].id = node.id
                        /\ Result[k].line_items = <<>>
        /\ \A k \in 1..Len(Result) :
            Result[k].line_items = <<>> =>
                /\ run_pc = "done" => Len(posted) >= k
                /\ Len(posted) >= k =>
                    /\ posted[k].payload.order_number = Result[k].name
                    /\ Len(posted[k].payload.order_items) = 1
                    /\ posted[k].payload.order_items[1].quantity = 1
                    /\ posted[k].payload.order_items[1].product.sku = "TODO"

\* the run is done; its first order came from a node whose only line item
\* is fulfilled and was accepted with the placeholder item
C26_Witness ==
    /\ run_pc = "done"
    /\ Len(served[1].edges) = 1
    /\ Len(Result) = 1
    /\ served[1].edges[1] = Node1003
    /\ FullyFulfilled(Node1003)
    /\ Result[1].id = "#1003"
    /\ Result[1].line_items = <<>>
    /\ posted[1].status_code = 201
    /\ posted[1].payload.order_items[1].product.sku = "TODO"

====
